---- MODULE Spec2Model ----
(***************************************************************************)
(* A model of the wavers crate's top-level API (src/src/lib.rs): `write`,  *)
(* `read`, and the parts of the crate they call (header construction, the  *)
(* chunk scan of Wav::from_path, Wav::read, wav_spec).  Files are byte     *)
(* sequences; a sample is an integer (for the float kinds: its bit         *)
(* pattern), serialised in two's complement over the kind's width.         *)
(***************************************************************************)
EXTENDS Integers, Sequences, FiniteSets, TLC

VARIABLES
    platform,   \* "le" | "be": the byte order of the build target
    callArgs,   \* what the caller passes to `write`: [kind, samples, rate, ch]
    fs,         \* the file system: path -> [exists, bytes]
    pc,         \* position of the running operation ("idle" between calls)
    wr,         \* locals of the running `write` call
    sc,         \* the chunk scan of the running/last Wav::from_path
    wav,        \* the caller's handle (Wav<T>)
    ret,        \* what the last finished call returned
    hist,       \* history of the running/last `write` call (see NoHist)
    made,       \* history: the arguments of the successful `write` whose file is at "out"
    seen,       \* history of the handle: its first read(), calls since
    given       \* history: what the fixture at "in" was built from

vars == <<platform, callArgs, fs, pc, wr, sc, wav, ret, hist, made, seen, given>>

\* The caller's kind parameter T: one instantiation of the generic API per run.
T == callArgs.kind

(* ------------------------------ bounds -------------------------------- *)

\* Longest sample buffer the caller passes to `write`.
MaxSamples == 3

\* Most chunks in a fixture file built from a chunk list.
MaxChunks == 3

(* ------------------------------ bytes --------------------------------- *)

RECURSIVE LE(_, _)
\* The w low-order bytes of v, least significant first (two's complement).
LE(v, w) == IF w = 0 THEN <<>> ELSE <<v % 256>> \o LE(v \div 256, w - 1)

Reverse(s) == [i \in 1..Len(s) |-> s[Len(s) + 1 - i]]

RECURSIVE ULE(_)
\* Unsigned little-endian decoding.
ULE(b) == IF b = <<>> THEN 0 ELSE Head(b) + 256 * ULE(Tail(b))

RECURSIVE SLE(_)
\* Signed (two's complement) little-endian decoding.
SLE(b) ==
    IF Len(b) = 1 THEN (IF b[1] < 128 THEN b[1] ELSE b[1] - 256)
    ELSE Head(b) + 256 * SLE(Tail(b))

RECURSIVE Concat(_)
Concat(ss) == IF ss = <<>> THEN <<>> ELSE Head(ss) \o Concat(Tail(ss))

IsPrefix(a, b) == Len(a) <= Len(b) /\ SubSeq(b, 1, Len(a)) = a

Drop(s, n) == SubSeq(s, n + 1, Len(s))

\* The first n elements of s, or all of s when it has fewer.
Take(s, n) == SubSeq(s, 1, IF n < Len(s) THEN n ELSE Len(s))

(* --------------------------- sample kinds ----------------------------- *)

Kinds == {"i16", "i32", "f32", "f64"}

\* size_of::<T>()
Width(k) == CASE k = "i16" -> 2 [] k = "i32" -> 4 [] k = "f32" -> 4 [] k = "f64" -> 8

\* WAVE format code: 1 linear PCM, 3 IEEE float.
FormatCode(k) == IF k \in {"i16", "i32"} THEN 1 ELSE 3

\* Samples::as_bytes: the buffer viewed as raw bytes, count * width of them.
AsBytes(samples, k) == Concat([i \in 1..Len(samples) |-> LE(samples[i], Width(k))])

(* ------------------------------ header -------------------------------- *)

RIFF == <<82, 73, 70, 70>>
WAVE == <<87, 65, 86, 69>>
FMT  == <<102, 109, 116, 32>>
DATA == <<100, 97, 116, 97>>

\* FmtChunk for kind k: block align = channels * width, byte rate = rate * block align.
FmtBody(k, rate, ch) ==
    LE(FormatCode(k), 2) \o LE(ch, 2) \o LE(rate, 4)
        \o LE(rate * ch * Width(k), 4) \o LE(ch * Width(k), 2) \o LE(8 * Width(k), 2)

\* WavHeader::new_header::<T>(sample_rate, n_channels, n_samples).as_bytes():
\* RIFF, container size, WAVE and the 16-byte fmt chunk.
HeaderBytes(k, rate, ch, n) ==
    RIFF \o LE(36 + n * Width(k), 4) \o WAVE \o FMT \o LE(16, 4) \o FmtBody(k, rate, ch)

(* ------------------- from_path: the chunk scan ------------------------ *)

Even(n) == n + (n % 2)

Slice(b, pos, n) == SubSeq(b, pos + 1, pos + n)

NoFmt  == [seen |-> FALSE, code |-> 0, ch |-> 0, rate |-> 0, byteRate |-> 0,
           blockAlign |-> 0, bits |-> 0, sub |-> 0]
NoData == [seen |-> FALSE, off |-> 0, size |-> 0]

\* The scan before its first step.
ScanStart == [path |-> "in", st |-> "ValidateRiff", pos |-> 0, fmt |-> NoFmt, data |-> NoData,
              err |-> "none", steps |-> 0]

Fail(s, e) == [s EXCEPT !.st = "Failed", !.err = e]

\* The fields of a format chunk whose body starts at `at` and is `size` long: the
\* first 16 bytes, and the sub-format code of the 40-byte extensible form.
ParseFmt(b, at, size) ==
    [seen |-> TRUE,
     code |-> ULE(Slice(b, at, 2)),
     ch |-> ULE(Slice(b, at + 2, 2)),
     rate |-> ULE(Slice(b, at + 4, 4)),
     byteRate |-> ULE(Slice(b, at + 8, 4)),
     blockAlign |-> ULE(Slice(b, at + 12, 2)),
     bits |-> ULE(Slice(b, at + 14, 2)),
     sub |-> IF size = 40 /\ at + 26 <= Len(b) THEN ULE(Slice(b, at + 24, 2)) ELSE 0]

\* A faulty skip: the declared size without the pad byte of an odd-sized chunk.
SkipChunkExact(size) == 8 + size

\* How far the scan moves past a chunk other than the one it is looking for:
\* its header and its declared size rounded up to an even byte count.
SkipChunk(size) == 8 + Even(size)

\* One chunk of ScanChunks: read the 8-byte chunk header at s.pos and act on it.
ScanChunk(b, s) ==
    LET id   == Slice(b, s.pos, 4)
        size == ULE(Slice(b, s.pos + 4, 4))
        body == s.pos + 8
        sought == IF s.st = "SeekingFmt" THEN "fmt " ELSE "data"
    IN  IF body > Len(b)
          THEN Fail(s, "MissingChunk " \o sought)
        ELSE IF id = FMT /\ ~s.fmt.seen
          THEN IF body + 16 > Len(b)
                 THEN Fail(s, "MissingChunk " \o sought)
                 ELSE [s EXCEPT !.fmt = ParseFmt(b, body, size),
                                !.pos = s.pos + SkipChunk(size),
                                !.st = IF s.data.seen THEN "Done" ELSE "SeekingData"]
        ELSE IF id = DATA /\ ~s.data.seen
          THEN IF s.fmt.seen
                 THEN [s EXCEPT !.data = [seen |-> TRUE, off |-> body, size |-> size],
                                !.pos = body,
                                !.st = "Done"]
                 ELSE [s EXCEPT !.data = [seen |-> TRUE, off |-> body, size |-> size],
                                !.pos = s.pos + SkipChunk(size)]
        ELSE [s EXCEPT !.pos = s.pos + SkipChunk(size)]

\* One step of the open state machine
\* Start -> ValidateRiff -> ValidateWave -> ScanChunks{SeekingFmt|SeekingData} -> Done.
ScanStep(b, s) ==
    LET t == [s EXCEPT !.steps = @ + 1] IN
    CASE s.st = "ValidateRiff" ->
            IF Len(b) >= 8 /\ Slice(b, 0, 4) = RIFF
              THEN [t EXCEPT !.st = "ValidateWave", !.pos = 8]
              ELSE Fail(t, "InvalidContainer")
      [] s.st = "ValidateWave" ->
            IF Len(b) >= 12 /\ Slice(b, 8, 4) = WAVE
              THEN [t EXCEPT !.st = "SeekingFmt", !.pos = 12]
              ELSE Fail(t, "InvalidContainer")
      [] s.st \in {"SeekingFmt", "SeekingData"} -> ScanChunk(b, t)
      [] OTHER -> s

RECURSIVE RunScan(_, _)
\* The scan run to its end.
RunScan(b, s) == IF s.st \in {"Done", "Failed"} THEN s ELSE RunScan(b, ScanStep(b, s))

\* The SampleKind a format chunk resolves to ("none": unsupported).
NativeKind(f) ==
    LET code == IF f.code = 65534 THEN f.sub ELSE f.code IN
    CASE code = 1 /\ f.bits = 16 -> "i16"
      [] code = 1 /\ f.bits = 32 -> "i32"
      [] code = 3 /\ f.bits = 32 -> "f32"
      [] code = 3 /\ f.bits = 64 -> "f64"
      [] OTHER -> "none"

NoWav == [open |-> FALSE, path |-> "in", T |-> "i16", kind |-> "none", rate |-> 0,
          ch |-> 0, blockAlign |-> 0, dataOff |-> 0, dataSize |-> 0, cursor |-> 0]

\* What the open makes of a finished scan: an error, or the handle (format
\* descriptor, payload location, file cursor where the scan stopped).
OpenResult(s, path, t) ==
    IF s.st = "Failed" THEN [status |-> s.err, wav |-> NoWav]
    ELSE IF NativeKind(s.fmt) = "none" THEN [status |-> "UnsupportedFormat", wav |-> NoWav]
    ELSE [status |-> "ok",
          wav |-> [open |-> TRUE, path |-> path, T |-> t, kind |-> NativeKind(s.fmt),
                   rate |-> s.fmt.rate, ch |-> s.fmt.ch, blockAlign |-> s.fmt.blockAlign,
                   dataOff |-> s.data.off, dataSize |-> s.data.size, cursor |-> s.pos]]

\* Wav::<T>::from_path(path) as one function of the file at the path.
FromPath(f, path, t) ==
    IF ~f.exists THEN [status |-> "IoFailure", wav |-> NoWav]
    ELSE OpenResult(RunScan(f.bytes, ScanStart), path, t)

(* ----------------------------- Wav::read ------------------------------ *)

\* A faulty Wav::read that does not seek: it reads on from the file cursor.
NoSeek(h) == h.cursor

\* Where Wav::read starts reading: it seeks to the recorded payload offset.
SeekTarget(h) == h.dataOff

\* Raw bytes of the file's native kind reinterpreted as samples.
FromBytes(b, k) ==
    [i \in 1..(Len(b) \div Width(k)) |-> SLE(Slice(b, (i - 1) * Width(k), Width(k)))]

\* Wav::read on handle h over the bytes of its file: seek, read exactly
\* dataSize bytes, reinterpret.  [status, samples, cursor].
WavRead(h, b) ==
    LET from == SeekTarget(h) IN
    IF from + h.dataSize > Len(b)
      THEN [status |-> "IoFailure", samples |-> <<>>, cursor |-> Len(b)]
      ELSE [status |-> "ok", samples |-> FromBytes(Slice(b, from, h.dataSize), h.kind),
            cursor |-> from + h.dataSize]

\* duration(): frame count / sample rate.
Duration(h) == (h.dataSize \div h.blockAlign) \div h.rate

\* (sample_rate, n_channels, duration, encoding) of a handle.
SpecOf(h) == [rate |-> h.rate, ch |-> h.ch, duration |-> Duration(h), encoding |-> h.kind]

(* ------------------------------ write --------------------------------- *)

NoFile == [exists |-> FALSE, bytes |-> <<>>]

\* u32::to_ne_bytes of `samples_bytes.len() as u32`: the low 32 bits of the
\* length, in the byte order of the target.
DataSizeBytes(len) == IF platform = "le" THEN LE(len, 4) ELSE Reverse(LE(len, 4))

\* A faulty File::create: the file opened for writing without truncation.
CreateFileKeep(f) == [exists |-> TRUE, bytes |-> f.bytes]

\* fs::File::create on success: the file exists and is empty.
CreateFile(f) == [exists |-> TRUE, bytes |-> <<>>]

\* The four buffers `write` hands to write_all, in program order.
Segments(a) ==
    << HeaderBytes(a.kind, a.rate, a.ch, Len(a.samples)),
       DATA,
       DataSizeBytes(Len(AsBytes(a.samples, a.kind))),
       AsBytes(a.samples, a.kind) >>

Intended(a) == Concat(Segments(a))

\* A write(2) of `chunk` at file offset `at` (the file is at least `at` long).
WriteAt(bytes, at, chunk) ==
    SubSeq(bytes, 1, at) \o chunk \o Drop(bytes, at + Len(chunk))

\* How many bytes one write(2) may accept of `rem` outstanding, `off` of the
\* buffer already written: all of them, or (on the first attempt) half.
ShortWrites(rem, off) == IF off = 0 THEN {rem, (rem + 1) \div 2} ELSE {rem}

NoInfo      == [rate |-> 0, ch |-> 0, duration |-> 0, encoding |-> "none"]
Ret(op, path, status, samples, info) ==
    [op |-> op, path |-> path, status |-> status, samples |-> samples, info |-> info]
Ok(op, path)     == Ret(op, path, "ok", <<>>, NoInfo)
Err(op, path, e) == Ret(op, path, e, <<>>, NoInfo)
NoRet            == Ret("none", "in", "none", <<>>, NoInfo)
NoWrite     == [path |-> "out", kind |-> "i16", samples |-> <<>>, rate |-> 0, ch |-> 0,
                off |-> 0, cursor |-> 0]
\* untouched: the call has not changed the target path so far; existed: a file was
\* there when the call began; created: File::create has succeeded; appended: every
\* write(2) so far began at the end of the file; segs: the buffers (1..4) the
\* write(2)s so far took their bytes from.
NoHist      == [untouched |-> TRUE, existed |-> FALSE, created |-> FALSE,
                appended |-> TRUE, segs |-> <<>>]

NoSeen      == [first |-> NoRet, phase |-> 0, stale |-> FALSE]

\* s with x appended unless x is already its last element.
Note(s, x) == IF s # <<>> /\ s[Len(s)] = x THEN s ELSE Append(s, x)

NoMade == [valid |-> FALSE, kind |-> "i16", samples |-> <<>>, rate |-> 0, ch |-> 0]
Made(w) == [valid |-> TRUE, kind |-> w.kind, samples |-> w.samples, rate |-> w.rate,
            ch |-> w.ch]

\* What a write_all leaves alone.
others == <<platform, callArgs, sc, wav, seen, given>>

AfterCreate(h, path) == IF wav.open /\ wav.path = path THEN [h EXCEPT !.stale = TRUE] ELSE h

\* A faulty order: the file created before the header is built.
CreatedFirst(f) == [exists |-> TRUE, bytes |-> <<>>]

\* The target path as a failed WavHeader::new_header leaves it (lib.rs:224 returns
\* before File::create runs).
AfterHeaderError(f) == f

\* lib.rs:221-225: view the samples as bytes and build the header; `?` returns
\* new_header's error.
WriteBegin(path, a) ==
    /\ \/ /\ hist' = [NoHist EXCEPT !.existed = fs[path].exists]
          /\ wr' = [path |-> path, kind |-> a.kind, samples |-> a.samples,
                     rate |-> a.rate, ch |-> a.ch, off |-> 0, cursor |-> 0]
          /\ pc' = "w_create"
          /\ ret' = NoRet
          /\ UNCHANGED fs
       \/ /\ fs' = [fs EXCEPT ![path] = AfterHeaderError(@)]
          /\ hist' = [NoHist EXCEPT !.existed = fs[path].exists,
                                    !.untouched = (fs'[path] = fs[path])]
          /\ ret' = Err("write", path, "HeaderError")
          /\ pc' = "idle"
          /\ wr' = NoWrite

\* The handle's history once a write has been called.
AfterWrite(h) == [h EXCEPT !.phase = IF @ = 1 THEN 2 ELSE @]

\* pub fn write (lib.rs:205): called with the caller's arguments.
WriteCall ==
    /\ pc = "idle"
    /\ WriteBegin("out", callArgs)
    /\ sc' = ScanStart
    /\ seen' = AfterWrite(seen)
    /\ UNCHANGED <<platform, callArgs, wav, made, given>>

\* lib.rs:226: fs::File::create(fp)?
WriteCreate ==
    /\ pc = "w_create"
    /\ \/ /\ fs' = [fs EXCEPT ![wr.path] = CreateFile(@)]
          /\ hist' = [hist EXCEPT !.untouched = (fs'[wr.path] = fs[wr.path]),
                                   !.created = TRUE]
          /\ made' = NoMade
          /\ seen' = AfterCreate(seen, wr.path)
          /\ pc' = "w_header"
          /\ UNCHANGED <<ret, wr>>
       \/ /\ ret' = Err("write", wr.path, "IoFailure")
          /\ pc' = "idle"
          /\ UNCHANGED <<fs, hist, wr, made, seen>>
    /\ UNCHANGED <<platform, callArgs, sc, wav, given>>

\* One turn of write_all's loop on segment i: nothing left, a write(2) that
\* accepts some of the outstanding bytes, or a write(2) that fails.
WriteAllStep(i, next) ==
    LET seg  == Segments(wr)[i]
        rest == Drop(seg, wr.off)
        done == IF next = "idle" THEN Ok("write", wr.path) ELSE ret
        file == IF next = "idle" THEN Made(wr) ELSE made
    IN  \/ /\ rest = <<>>
           /\ pc' = next
           /\ ret' = done
           /\ made' = file
           /\ UNCHANGED <<fs, wr, hist>>
        \/ /\ rest # <<>>
           /\ \E n \in ShortWrites(Len(rest), wr.off) :
                LET chunk == SubSeq(rest, 1, n) IN
                /\ fs' = [fs EXCEPT ![wr.path].bytes = WriteAt(@, wr.cursor, chunk)]
                /\ hist' = [hist EXCEPT
                              !.untouched = FALSE,
                              !.appended = @ /\ wr.cursor = Len(fs[wr.path].bytes),
                              !.segs = Note(@, i)]
                /\ IF n = Len(rest)
                      THEN /\ pc' = next
                           /\ ret' = done
                           /\ made' = file
                           /\ wr' = [wr EXCEPT !.off = 0, !.cursor = @ + n]
                      ELSE /\ UNCHANGED <<pc, ret, made>>
                           /\ wr' = [wr EXCEPT !.off = @ + n, !.cursor = @ + n]
        \/ /\ rest # <<>>
           /\ ret' = Err("write", wr.path, "IoFailure")
           /\ pc' = "idle"
           /\ UNCHANGED <<fs, wr, hist, made>>

\* lib.rs:227: f.write_all(&header_bytes)?
WriteHeader ==
    pc = "w_header" /\ WriteAllStep(1, "w_tag") /\ UNCHANGED others

\* lib.rs:228: f.write_all(&DATA)?
WriteDataTag ==
    pc = "w_tag" /\ WriteAllStep(2, "w_size") /\ UNCHANGED others

\* lib.rs:229-230: f.write_all(&data_size_bytes.to_ne_bytes())?
WriteDataSize ==
    pc = "w_size" /\ WriteAllStep(3, "w_samples") /\ UNCHANGED others

\* lib.rs:231-232: f.write_all(&samples_bytes)?; Ok(())
WriteSamples ==
    pc = "w_samples" /\ WriteAllStep(4, "idle") /\ UNCHANGED others

(* ------------------------- opening and reading ------------------------ *)

Paths == {"in", "out"}

\* Conversion between kinds (conversion.rs) is outside this model: the caller
\* reads a file only as its native kind.
NoConversion(o) == o.status = "ok" => o.wav.kind = o.wav.T

\* Wav::<T>::from_path(path): File::open, then the header scan step by step.
FromPathCall ==
    /\ pc = "idle"
    /\ \E path \in Paths :
         /\ wav' = NoWav
         /\ seen' = NoSeen
         /\ sc' = [ScanStart EXCEPT !.path = path]
         /\ IF fs[path].exists
              THEN pc' = "ValidateRiff" /\ ret' = NoRet
              ELSE pc' = "idle" /\ ret' = Err("from_path", path, "IoFailure")
    /\ wr' = NoWrite
    /\ hist' = NoHist
    /\ UNCHANGED <<platform, callArgs, fs, made, given>>

\* One step of the scan; a failed scan returns its error from from_path.
OpenStep ==
    LET s == ScanStep(fs[sc.path].bytes, sc) IN
    /\ sc' = s
    /\ IF s.st = "Failed"
         THEN pc' = "idle" /\ ret' = Err("from_path", sc.path, s.err)
         ELSE /\ pc' = IF s.st \in {"SeekingFmt", "SeekingData"} THEN "ScanChunks" ELSE s.st
              /\ UNCHANGED ret
    /\ UNCHANGED <<platform, callArgs, fs, wr, wav, hist, made, seen, given>>

ValidateRiff == pc = "ValidateRiff" /\ OpenStep
ValidateWave == pc = "ValidateWave" /\ OpenStep
ScanChunks   == pc = "ScanChunks" /\ OpenStep

\* The scan is Done: resolve the format and hand out the handle.
OpenDone ==
    /\ pc = "Done"
    /\ LET o == OpenResult(sc, sc.path, T) IN
         /\ wav' = o.wav
         /\ ret' = IF o.status = "ok" THEN Ok("from_path", sc.path)
                   ELSE Err("from_path", sc.path, o.status)
    /\ pc' = "idle"
    /\ UNCHANGED <<platform, callArgs, fs, wr, sc, hist, made, seen, given>>

\* What a call that neither writes nor opens leaves behind of earlier calls' locals.
Forget == wr' = NoWrite /\ hist' = NoHist /\ sc' = ScanStart

\* wav.read() on the caller's handle.
WavReadCall ==
    /\ pc = "idle" /\ wav.open /\ wav.kind = wav.T
    /\ LET r == WavRead(wav, fs[wav.path].bytes)
           out == Ret("wav.read", wav.path, r.status, r.samples, NoInfo)
       IN  /\ ret' = out
           /\ wav' = [wav EXCEPT !.cursor = r.cursor]
           /\ seen' = [seen EXCEPT !.first = IF seen.phase = 0 THEN out ELSE @,
                                   !.phase = CASE @ = 0 -> 1 [] @ = 2 -> 3 [] OTHER -> @]
    /\ Forget
    /\ UNCHANGED <<platform, callArgs, fs, pc, made, given>>

\* wav.sample_rate(), wav.n_channels(), wav.duration(), wav.encoding().
WavAccessors ==
    /\ pc = "idle" /\ wav.open
    /\ ret' = Ret("wav.accessors", wav.path, "ok", <<>>, SpecOf(wav))
    /\ Forget
    /\ UNCHANGED <<platform, callArgs, fs, pc, wav, made, seen, given>>

\* wav.write(path): read the samples, then `write` them with the handle's sample
\* rate and channel count.  The caller writes to "out" from a handle on "in".
WavWriteCall ==
    /\ pc = "idle" /\ wav.open /\ wav.kind = wav.T /\ wav.path = "in"
    /\ LET r == WavRead(wav, fs[wav.path].bytes) IN
         /\ wav' = [wav EXCEPT !.cursor = r.cursor]
         /\ IF r.status = "ok"
              THEN WriteBegin("out", [kind |-> wav.T, samples |-> r.samples,
                                      rate |-> wav.rate, ch |-> wav.ch])
              ELSE /\ ret' = Err("wav.write", "out", r.status)
                   /\ wr' = NoWrite /\ hist' = NoHist
                   /\ UNCHANGED <<fs, pc>>
    /\ sc' = ScanStart
    /\ seen' = AfterWrite(seen)
    /\ UNCHANGED <<platform, callArgs, made, given>>

\* A faulty `read` that unwraps the results of from_path and of Wav::read
\* instead of returning their errors.
ReadUnwrap(f, path, t) ==
    LET o == FromPath(f, path, t) IN
    IF o.status # "ok" THEN Err("read", path, "panic")
    ELSE LET r == WavRead(o.wav, f.bytes) IN
         IF r.status # "ok" THEN Err("read", path, "panic")
         ELSE Ret("read", path, "ok", r.samples, [NoInfo EXCEPT !.rate = o.wav.rate])

\* A faulty `read` that returns the channel count in the place of the sample rate.
ReadChannels(f, path, t) ==
    LET o == FromPath(f, path, t) IN
    IF o.status # "ok" THEN Err("read", path, o.status)
    ELSE LET r == WavRead(o.wav, f.bytes) IN
         IF r.status # "ok" THEN Err("read", path, r.status)
         ELSE Ret("read", path, "ok", r.samples, [NoInfo EXCEPT !.rate = o.wav.ch])

\* lib.rs:176-178: Wav::from_path(path)?, wav.read()?, Ok((samples, wav.sample_rate())).
Read(f, path, t) ==
    LET o == FromPath(f, path, t) IN
    IF o.status # "ok" THEN Err("read", path, o.status)
    ELSE LET r == WavRead(o.wav, f.bytes) IN
         IF r.status # "ok" THEN Err("read", path, r.status)
         ELSE Ret("read", path, "ok", r.samples, [NoInfo EXCEPT !.rate = o.wav.rate])

\* pub fn read::<T, _>(path) (lib.rs:165).
ReadCall ==
    /\ pc = "idle"
    /\ \E path \in Paths :
         /\ NoConversion(FromPath(fs[path], path, T))
         /\ ret' = Read(fs[path], path, T)
    /\ Forget
    /\ UNCHANGED <<platform, callArgs, fs, pc, wav, made, seen, given>>

\* wav_spec(path): the header alone.
WavSpec(f, path) ==
    LET o == FromPath(f, path, "i16") IN
    IF o.status # "ok" THEN Err("wav_spec", path, o.status)
    ELSE Ret("wav_spec", path, "ok", <<>>, SpecOf(o.wav))

WavSpecCall ==
    /\ pc = "idle"
    /\ \E path \in Paths : ret' = WavSpec(fs[path], path)
    /\ Forget
    /\ UNCHANGED <<platform, callArgs, fs, pc, wav, made, seen, given>>

(* ------------------------------ inputs -------------------------------- *)

\* The i-th sample of the caller's buffers: positive and negative values whose
\* bytes all differ.
SampleAt(i) == IF i % 2 = 1 THEN 257 + i ELSE -(256 * i) - 3

SampleBufs == {[i \in 1..n |-> SampleAt(i)] : n \in 0..MaxSamples}

SampleRates == {2, 16000}
Channels == {1, 2}

WriteArgs == [kind : Kinds, samples : SampleBufs, rate : SampleRates, ch : Channels]

\* What an earlier program left at the output path.
Junk == [exists |-> TRUE, bytes |-> <<74, 85, 78, 75, 33>>]

FileOf(b) == [exists |-> TRUE, bytes |-> b]

\* Chunks of the fixtures: a format chunk, a data chunk, a "LIST" chunk of odd
\* size (3 bytes and the pad byte) and a "fact" chunk of even size.
ChunkTypes == {"fmt", "data", "odd", "even"}

ChunkBytes(c, k, samples, rate, ch) ==
    CASE c = "fmt"  -> FMT \o LE(16, 4) \o FmtBody(k, rate, ch)
      [] c = "data" -> DATA \o LE(Len(AsBytes(samples, k)), 4) \o AsBytes(samples, k)
      [] c = "odd"  -> <<76, 73, 83, 84>> \o LE(3, 4) \o <<7, 8, 9>> \o <<0>>
      [] c = "even" -> <<102, 97, 99, 116>> \o LE(4, 4) \o <<2, 0, 0, 0>>

\* A RIFF/WAVE container holding the chunks `cs`.
Container(body) == RIFF \o LE(4 + Len(body), 4) \o WAVE \o body

Build(cs, k, samples, rate, ch) ==
    Container(Concat([i \in 1..Len(cs) |-> ChunkBytes(cs[i], k, samples, rate, ch)]))

RECURSIVE SeqsUpTo(_, _)
SeqsUpTo(S, n) ==
    IF n = 0 THEN {<<>>}
    ELSE LET R == SeqsUpTo(S, n - 1) IN R \cup {Append(r, x) : r \in R, x \in S}

FixtureSamples == <<SampleAt(1), SampleAt(2)>>

\* chunks, built: the chunk list the file was built from, if it was; known: the
\* file has a format chunk of kind `kind`, `rate` and `ch`, and the payload `samples`.
Given(cs, built, known, k, samples, rate, ch) ==
    [chunks |-> cs, built |-> built, known |-> known, kind |-> k, samples |-> samples,
     rate |-> rate, ch |-> ch]

Unknown == Given(<<>>, FALSE, FALSE, "i16", <<>>, 0, 0)

\* A fixture: the file, what it was built from, and the kind the caller reads it as.
Fixture(t, file, g) == [T |-> t, file |-> file, given |-> g]

Wellformed(t, cs, k, ch) ==
    Fixture(t, FileOf(Build(cs, k, FixtureSamples, 16000, ch)),
            Given(cs, TRUE, {"fmt", "data"} \subseteq {cs[i] : i \in 1..Len(cs)},
                  k, FixtureSamples, 16000, ch))

\* A format chunk in the 40-byte extensible form, declaring kind k.
FmtExtensible(k, rate, ch) ==
    FMT \o LE(40, 4) \o LE(65534, 2) \o SubSeq(FmtBody(k, rate, ch), 3, 16)
        \o LE(22, 2) \o LE(8 * Width(k), 2) \o LE(0, 4)
        \o LE(FormatCode(k), 2) \o <<0, 0, 0, 0, 16, 0, 128, 0, 0, 170, 0, 56, 155, 113>>

Raw(t, b) == Fixture(t, FileOf(b), Unknown)

Plain == Build(<<"odd", "fmt", "data">>, "i16", FixtureSamples, 16000, 1)

Fixtures ==
    {Wellformed("i16", cs, "i16", 1) : cs \in SeqsUpTo(ChunkTypes, MaxChunks)}
    \cup {Wellformed(k, <<"fmt", "data">>, k, ch) : k \in Kinds, ch \in Channels}
    \cup {Wellformed("f32", <<"fmt", "data">>, "i16", 1)}
    \cup {Raw("i16", <<>>),
          Raw("i16", <<82, 73, 70, 88>> \o Drop(Plain, 4)),
          Raw("i16", SubSeq(Plain, 1, 8) \o <<87, 65, 86, 70>> \o Drop(Plain, 12)),
          Raw("i16", SubSeq(Plain, 1, 6)),
          Raw("i16", Plain \o <<100, 97, 116>>),
          Raw("i16", SubSeq(Plain, 1, Len(Plain) - 1)),
          Raw("i16", Container(FMT \o LE(16, 4) \o LE(2, 2)
                                   \o Drop(FmtBody("i16", 16000, 1), 2)
                                   \o ChunkBytes("data", "i16", FixtureSamples, 0, 0))),
          Raw("i16", Container(ChunkBytes("fmt", "i16", <<>>, 16000, 2)
                                   \o ChunkBytes("data", "i16", <<SampleAt(1)>>, 0, 0))),
          Fixture("i16", NoFile, Unknown),
          Fixture("i32",
                  FileOf(Container(FmtExtensible("i32", 16000, 1)
                                       \o ChunkBytes("data", "i32", FixtureSamples, 0, 0))),
                  Given(<<>>, FALSE, TRUE, "i32", FixtureSamples, 16000, 1))}

HandleFixtures ==
    {Wellformed("i16", <<"odd", "fmt", "data">>, "i16", 1),
     Wellformed("i16", <<"data", "fmt">>, "i16", 1)}
    \cup {Wellformed(k, <<"fmt", "data">>, k, 2) : k \in Kinds}

\* What the caller writes in the runs that start from a fixture.
DefaultArgs(t) == [kind |-> t, samples |-> <<SampleAt(2)>>, rate |-> 2, ch |-> 1]

InitCommon ==
    /\ platform \in {"le", "be"}
    /\ pc = "idle"
    /\ wr = NoWrite
    /\ sc = ScanStart
    /\ wav = NoWav
    /\ ret = NoRet
    /\ hist = NoHist
    /\ made = NoMade
    /\ seen = NoSeen

\* A run that starts from fixture x at "in".
FromFixture(x) ==
    /\ callArgs = DefaultArgs(x.T)
    /\ fs = [p \in Paths |-> IF p = "in" THEN x.file ELSE NoFile]
    /\ given = x.given

\* A run of a caller with arguments for `write`, and what is at "out" before.
InitCaller ==
    /\ InitCommon
    /\ callArgs \in WriteArgs
    /\ \E old \in {NoFile, Junk} : fs = [p \in Paths |-> IF p = "in" THEN NoFile ELSE old]
    /\ given = Unknown

InitFixture == InitCommon /\ \E x \in Fixtures : FromFixture(x)

\* The fixtures of the runs that use every operation.
Init == InitCommon /\ \E x \in HandleFixtures : FromFixture(x)

NextWrite ==
    \/ WriteCall
    \/ WriteCreate
    \/ WriteHeader
    \/ WriteDataTag
    \/ WriteDataSize
    \/ WriteSamples

NextOpen ==
    \/ FromPathCall
    \/ ValidateRiff
    \/ ValidateWave
    \/ ScanChunks
    \/ OpenDone

Next ==
    \/ NextWrite
    \/ NextOpen
    \/ WavReadCall
    \/ WavAccessors
    \/ WavWriteCall
    \/ ReadCall
    \/ WavSpecCall

\* Every operation, from a fixture.
Spec == Init /\ [][Next]_vars

\* Callers of `write` alone.
SpecWrite == InitCaller /\ [][NextWrite]_vars

\* Callers that write and then read back or query the written file.
SpecRoundTrip == InitCaller /\ [][NextWrite \/ ReadCall \/ WavSpecCall]_vars

\* Readers of the fixtures.
SpecOpen == InitFixture /\ [][NextOpen \/ ReadCall \/ WavReadCall]_vars

(* ------------------------------ claims -------------------------------- *)

Written == fs[wr.path].bytes

WriteReturned(status) == pc = "idle" /\ ret.op = "write" /\ ret.status = status

\* A `write` that has created its file and is writing, or has returned after that.
Writing ==
    \/ pc \in {"w_header", "w_tag", "w_size", "w_samples"}
    \/ WriteReturned("ok")
    \/ WriteReturned("IoFailure") /\ hist.created

\* C2: a write puts into a fresh, empty file the header, then the tag "data", then
\* the 4-byte size, then the sample bytes and nothing else; each write(2) appends
\* at the end of the file, a buffer is begun only when the one before is out in
\* full, and no byte already in the file changes.
C2_FourSegmentsInOrder ==
    Writing =>
        LET hdr == HeaderBytes(wr.kind, wr.rate, wr.ch, Len(wr.samples))
            raw == AsBytes(wr.samples, wr.kind)
            n   == Len(Written)
        IN  /\ hist.appended
            /\ wr.cursor = n
            /\ \A i \in 1..Len(hist.segs) : hist.segs[i] = i
            /\ Take(Written, 36) = Take(hdr, n)
            /\ n > 36 => Take(Drop(Written, 36), 4) = Take(<<100, 97, 116, 97>>, n - 36)
            /\ n > 44 => Drop(Written, 44) = Take(raw, n - 44)
            /\ pc = "w_header" => n < 36
            /\ pc = "w_tag" => n >= 36 /\ n < 40
            /\ pc = "w_size" => n >= 40 /\ n < 44
            /\ pc = "w_samples" => n >= 44 /\ (raw # <<>> => n < 44 + Len(raw))
            /\ WriteReturned("ok") => n = 44 + Len(raw)

C2_Witness ==
    /\ WriteReturned("ok")
    /\ hist.existed
    /\ Len(wr.samples) = 2
    /\ hist.segs = <<1, 2, 3, 4>>

\* C3: the size field after the "data" tag is the little-endian encoding of the
\* buffer's byte length count * width, on every platform.
C3_SizeFieldLittleEndian ==
    (Writing /\ Len(Written) >= 44) =>
        SubSeq(Written, 41, 44) = LE(Len(wr.samples) * Width(wr.kind), 4)

\* C4: the payload of a file made by write is a whole number of frames of
\* ch * width bytes, and frames * ch is the number of samples passed.
C4_FrameAligned ==
    made.valid =>
        LET payload == Len(fs["out"].bytes) - 44
            align   == made.ch * Width(made.kind)
            frames  == payload \div align
        IN  payload = frames * align /\ frames * made.ch = Len(made.samples)

\* C10 as stated: a failed header leaves the target as it was, and after any
\* later failure the file at the target holds a prefix of the intended bytes.
C10_PrefixAfterAnyLaterFailure ==
    /\ WriteReturned("HeaderError") => hist.untouched
    /\ WriteReturned("IoFailure") => IsPrefix(Written, Intended(wr))

\* C10 amended: a failed header, and a failed File::create, leave the target as it
\* was; after a failed write_all the file holds a prefix of the intended bytes
\* header ++ "data" ++ size ++ sample bytes.
C10_HeaderFirstThenPrefix ==
    /\ WriteReturned("HeaderError") => hist.untouched
    /\ (WriteReturned("IoFailure") /\ ~hist.created) => hist.untouched
    /\ (WriteReturned("IoFailure") /\ hist.created) =>
            /\ fs[wr.path].exists
            /\ IsPrefix(Written, Intended(wr))
            /\ Written # Intended(wr) \/ wr.samples = <<>>

C10_Witness ==
    /\ WriteReturned("HeaderError")
    /\ hist.existed
    /\ fs["out"] = Junk

(* ---------------------- claims: write then read ----------------------- *)

\* `read` or wav_spec has returned from the file a successful `write` made.
BackFrom(op) == pc = "idle" /\ made.valid /\ ret.op = op /\ ret.path = "out"

\* C1: reading back, as the kind written, the file a successful write made
\* returns as many samples as were written and, for i16 and i32, the same value
\* at every index.
C1_RoundTrip ==
    BackFrom("read") =>
        /\ ret.status = "ok"
        /\ Len(ret.samples) = Len(made.samples)
        /\ made.kind \in {"i16", "i32"} => ret.samples = made.samples

\* C7: wav_spec of the file a successful write made returns the sample rate and
\* channel count passed to write, the encoding T and the duration
\* (samples / channels) / sample rate, the values a full read derives.
C7_SpecOfWritten ==
    BackFrom("wav_spec") =>
        /\ ret.status = "ok"
        /\ ret.info = [rate |-> made.rate, ch |-> made.ch,
                       duration |-> (Len(made.samples) \div made.ch) \div made.rate,
                       encoding |-> made.kind]

(* ------------------------ claims: open and read ----------------------- *)

\* The file is empty, or lacks "RIFF" in bytes 0..4 or "WAVE" in bytes 8..12.
BadMagic(b) == b = <<>> \/ Take(b, 4) # RIFF \/ Take(Drop(b, 8), 4) # WAVE

\* C5: opening a zero-length file, or a file without the RIFF or WAVE magic,
\* returns InvalidContainer from from_path and from `read` as a result value,
\* and yields no handle and no samples.
C5_InvalidContainer ==
    \A p \in Paths :
        (fs[p].exists /\ BadMagic(fs[p].bytes)) =>
            /\ (pc = "idle" /\ ret.op \in {"from_path", "read"} /\ ret.path = p) =>
                    ret.status = "InvalidContainer" /\ ret.samples = <<>>
            /\ wav.open => wav.path # p
            /\ sc.path = p => sc.st \in {"ValidateRiff", "ValidateWave", "Failed"}

C5_Witness ==
    /\ pc = "idle" /\ ret.op = "read" /\ ret.path = "in"
    /\ ret.status = "InvalidContainer"
    /\ fs["in"].exists /\ fs["in"].bytes = <<>>

\* C6: `read` of a file whose native kind is the requested T returns the payload
\* samples unchanged, in file order, and the sample rate of the format chunk.
C6_NativeRead ==
    (pc = "idle" /\ ret.op = "read" /\ ret.path = "in" /\ given.known /\ given.kind = T) =>
        /\ ret.status = "ok"
        /\ ret.samples = given.samples
        /\ ret.info.rate = given.rate

C6_Witness ==
    /\ pc = "idle" /\ ret.op = "read" /\ ret.status = "ok"
    /\ given.known /\ T = "i16" /\ given.kind = "i16" /\ given.ch = 1
    /\ ret.info.rate = 16000
    /\ ret.samples = FixtureSamples

RECURSIVE Walk(_, _)
\* The chunks of b from offset pos on: each [id, off, size] with `off` the offset
\* of its body, the next one after the body and the pad byte of an odd size.
Walk(b, pos) ==
    IF pos + 8 > Len(b) THEN <<>>
    ELSE LET size == ULE(SubSeq(b, pos + 5, pos + 8)) IN
         <<[id |-> SubSeq(b, pos + 1, pos + 4), off |-> pos + 8, size |-> size]>>
             \o Walk(b, pos + 8 + size + (size % 2))

\* The chunks of the walk with the given id (a format chunk: with its 16 bytes).
Found(b, id) ==
    LET w == Walk(b, 12) IN
    {i \in 1..Len(w) : w[i].id = id /\ (id = FMT => w[i].off + 16 <= Len(b))}

First(S) == CHOOSE i \in S : \A j \in S : i <= j

\* C9: on a file with both magics the scan ends within one step per chunk
\* header; it ends Done, with the offset and size of the data chunk recorded,
\* exactly when the walk over the even-padded chunks finds a "fmt " and a "data"
\* chunk, and otherwise fails with MissingChunk naming the chunk still sought.
C9_ScanOutcome ==
    LET b == fs[sc.path].bytes
        fmts == Found(b, FMT)
        datas == Found(b, DATA)
        both == fmts # {} /\ datas # {}
    IN  (fs[sc.path].exists /\ ~BadMagic(b)) =>
            /\ sc.steps <= 3 + ((Len(b) - 12) \div 8)
            /\ sc.st = "Done" =>
                  /\ both
                  /\ sc.data.seen /\ sc.fmt.seen
                  /\ sc.data.off = Walk(b, 12)[First(datas)].off
                  /\ sc.data.size = Walk(b, 12)[First(datas)].size
            /\ sc.st = "Failed" =>
                  /\ ~both
                  /\ sc.err = IF fmts = {} THEN "MissingChunk fmt " ELSE "MissingChunk data"
            /\ given.built => (sc.st = "Done" => given.known) /\ (sc.st = "Failed" => ~given.known)

C9_Witness ==
    /\ sc.st = "Done"
    /\ given.chunks = <<"odd", "data", "fmt">>
    /\ sc.data.off = 32

(* ------------------------- claims: the handle ------------------------- *)

\* C8: every read() on an open handle whose file has not been replaced returns
\* what the first read() returned, whatever accessors, reads and writes to
\* another file came between and wherever they left the file cursor.
C8_RereadSame ==
    (pc = "idle" /\ wav.open /\ ~seen.stale /\ ret.op = "wav.read") => ret = seen.first

C8_Witness ==
    /\ pc = "idle" /\ wav.open /\ wav.path = "in" /\ ~seen.stale
    /\ seen.phase = 3 /\ made.valid
    /\ ret.op = "wav.read" /\ ret.status = "ok" /\ ret.samples = FixtureSamples
    /\ wav.cursor # wav.dataOff

====
